---- MODULE Spec2Model ----
(***************************************************************************)
(* Model of encode_png_to_base64_json.py: a directory scan, a base64 data  *)
(* URI encoder and a JSON writer.                                          *)
(*                                                                         *)
(* Text is modelled as what it is in the program: a sequence of code       *)
(* points (all names of the model are ASCII, so code points are bytes).    *)
(* A path is the sequence of the names below the input directory; the      *)
(* input directory itself is the empty path.                               *)
(***************************************************************************)
EXTENDS Naturals, Sequences, FiniteSets

\* ------------------------------------------------------------------ bounds
\* How often main is run on the same tree (specification SpecRerun).
MaxRuns == 2
\* How many changes another process makes to the tree during a run
\* (specification SpecConc).
MaxMods == 1

\* ------------------------------------------------------------------- names
\* "a.png"
n_a_png == <<97, 46, 112, 110, 103>>
\* "b.png"
n_b_png == <<98, 46, 112, 110, 103>>
\* "d.png" (the name of a directory)
n_d_png == <<100, 46, 112, 110, 103>>
\* "n.txt"
n_n_txt == <<110, 46, 116, 120, 116>>
\* "_root", "a", "b", "x", "y": directory names
n__root == <<95, 114, 111, 111, 116>>
n_a == <<97>>
n_b == <<98>>
n_x == <<120>>
n_y == <<121>>
\* "in": the base name of the input directory (dir_path.name)
n_in == <<105, 110>>

\* ------------------------------------------------------------- file system
File(p) == [path |-> p, kind |-> "file"]
Dir(p) == [path |-> p, kind |-> "dir"]

\* The nodes a tree of the model may hold.
Candidates ==
    { File(<<n_a_png>>), File(<<n_b_png>>), File(<<n_n_txt>>),
      Dir(<<n__root>>), File(<<n__root, n_a_png>>),
      Dir(<<n_a>>), Dir(<<n_a, n_x>>), File(<<n_a, n_x, n_a_png>>),
      Dir(<<n_a, n_y>>), File(<<n_a, n_y, n_a_png>>),
      Dir(<<n_b>>), File(<<n_b, n_b_png>>), Dir(<<n_b, n_d_png>>) }

Parent(p) == SubSeq(p, 1, Len(p) - 1)
BaseName(p) == p[Len(p)]

\* A tree: every node below the input directory lies in a directory of the tree.
IsTree(t) == \A n \in t : Len(n.path) > 1 => Dir(Parent(n.path)) \in t
Trees == { t \in SUBSET Candidates : IsTree(t) }

\* The bytes of each file of the model (lengths 0 to 4, all different).
Content(p) ==
    CASE p = <<n_a_png>> -> <<137, 80, 78>>
      [] p = <<n_b_png>> -> <<>>
      [] p = <<n_n_txt>> -> <<104, 105>>
      [] p = <<n__root, n_a_png>> -> <<1, 2>>
      [] p = <<n_a, n_x, n_a_png>> -> <<255>>
      [] p = <<n_a, n_y, n_a_png>> -> <<0, 16, 131, 16>>
      [] p = <<n_b, n_b_png>> -> <<137, 80>>
      [] OTHER -> <<110>>

\* All orders in which a set may be enumerated.
Enumerations(S) ==
    { s \in [1..Cardinality(S) -> S] : \A i, j \in DOMAIN s : s[i] = s[j] => i = j }

IsPrefix(s, t) == Len(s) <= Len(t) /\ SubSeq(t, 1, Len(s)) = s

\* str.__lt__: code point order, a proper prefix is smaller.
RECURSIVE StrLess(_, _)
StrLess(s, t) ==
    IF t = <<>> THEN FALSE
    ELSE IF s = <<>> THEN TRUE
    ELSE IF s[1] # t[1] THEN s[1] < t[1]
    ELSE StrLess(Tail(s), Tail(t))

\* fnmatch of a name against '*.png'
dot_png == <<46, 112, 110, 103>>
MatchesPng(name) ==
    Len(name) >= 4 /\ SubSeq(name, Len(name) - 3, Len(name)) = dot_png

\* [d for d in dir_path.iterdir() if d.is_dir()]
IterSubdirs(t) == { n.path : n \in { m \in t : Len(m.path) = 1 /\ m.kind = "dir" } }
\* Glob with the pattern '*.*': every name with a dot directly in the directory.
GlobAnySuffix(t) ==
    { n.path : n \in { m \in t : /\ Len(m.path) = 1
                                 /\ \E i \in DOMAIN BaseName(m.path) :
                                       BaseName(m.path)[i] = 46 } }
\* dir_path.glob('*.png'): the matching names directly in the directory.
Glob(t) == { n.path : n \in { m \in t : Len(m.path) = 1 /\ MatchesPng(BaseName(m.path)) } }
\* d.rglob('*.png'): the matching names anywhere below d.
RGlob(t, d) ==
    { n.path : n \in { m \in t : /\ Len(m.path) > Len(d)
                                 /\ IsPrefix(d, m.path)
                                 /\ MatchesPng(BaseName(m.path)) } }

\* ----------------------------------------------------------------- encoder
\* The standard base64 alphabet (RFC 4648, section 4), as code points.
B64Char(i) ==
    IF i < 26 THEN 65 + i
    ELSE IF i < 52 THEN 97 + (i - 26)
    ELSE IF i < 62 THEN 48 + (i - 52)
    ELSE IF i = 62 THEN 43
    ELSE 47

\* '='
B64Pad == <<61>>

\* base64.b64encode(png_data).decode('utf-8')
RECURSIVE b64encode(_)
b64encode(bs) ==
    IF bs = <<>> THEN <<>>
    ELSE IF Len(bs) = 1 THEN
        <<B64Char(bs[1] \div 4), B64Char((bs[1] % 4) * 16)>> \o B64Pad \o B64Pad
    ELSE IF Len(bs) = 2 THEN
        <<B64Char(bs[1] \div 4),
          B64Char((bs[1] % 4) * 16 + bs[2] \div 16),
          B64Char((bs[2] % 16) * 4)>> \o B64Pad
    ELSE
        <<B64Char(bs[1] \div 4),
          B64Char((bs[1] % 4) * 16 + bs[2] \div 16),
          B64Char((bs[2] % 16) * 4 + bs[3] \div 64),
          B64Char(bs[3] % 64)>> \o b64encode(SubSeq(bs, 4, Len(bs)))

\* "data:image/png;base64,"
DataUriPrefix ==
    <<100, 97, 116, 97, 58, 105, 109, 97, 103, 101, 47, 112, 110, 103, 59,
      98, 97, 115, 101, 54, 52, 44>>

\* encode_png_to_data_uri, given the bytes that f.read() returned.
encode_png_to_data_uri(png_bytes) == DataUriPrefix \o b64encode(png_bytes)

\* {'name': f.name, 'data': encode_png_to_data_uri(f)}
Entry(p) == [name |-> BaseName(p), data |-> encode_png_to_data_uri(Content(p))]

\* --------------------------------------------------------------- assembler
\* sorted(entries, key=lambda x: x['name']): a stable sort, entries of equal
\* name keep the order they had.
RECURSIVE InsertByName(_, _)
InsertByName(e, s) ==
    IF s = <<>> THEN <<e>>
    ELSE IF StrLess(e.name, s[1].name) THEN <<e>> \o s
    ELSE <<s[1]>> \o InsertByName(e, Tail(s))

RECURSIVE SortedByName(_)
SortedByName(l) ==
    IF l = <<>> THEN <<>>
    ELSE InsertByName(l[Len(l)], SortedByName(SubSeq(l, 1, Len(l) - 1)))

\* SortedSubdirs without the sort: for subdir in subdirs
SubdirsAsEnumerated(l) == l

\* sorted(subdirs): the subdirectories are siblings, so the order of the
\* paths is the order of their names.
RECURSIVE InsertPath(_, _)
InsertPath(p, s) ==
    IF s = <<>> THEN <<p>>
    ELSE IF StrLess(BaseName(p), BaseName(s[1])) THEN <<p>> \o s
    ELSE <<s[1]>> \o InsertPath(p, Tail(s))

RECURSIVE SortedSubdirs(_)
SortedSubdirs(l) ==
    IF l = <<>> THEN <<>>
    ELSE InsertPath(l[Len(l)], SortedSubdirs(SubSeq(l, 1, Len(l) - 1)))

\* A dict is the sequence of its items in insertion order.
DictKeys(d) == [i \in DOMAIN d |-> d[i].key]
DictHas(d, k) == \E i \in DOMAIN d : d[i].key = k
DictGet(d, k) == d[CHOOSE i \in DOMAIN d : d[i].key = k].value
\* result[k] = v: a new key goes last, a key already there keeps its place.
DictSet(d, k, v) ==
    IF DictHas(d, k)
    THEN [i \in DOMAIN d |-> IF d[i].key = k THEN [key |-> k, value |-> v] ELSE d[i]]
    ELSE Append(d, [key |-> k, value |-> v])

\* The values process_directory returns: a list of entries or a dict of lists.
ListValue(l) == [type |-> "list", list |-> l, dict |-> <<>>]
DictValue(d) == [type |-> "dict", list |-> <<>>, dict |-> d]
NoValue == [type |-> "none", list |-> <<>>, dict |-> <<>>]

\* ReturnValue without the empty case: return result
ReturnValueAlwaysDict(d) == DictValue(d)
\* return result if result else []
ReturnValue(d) == IF d # <<>> THEN DictValue(d) ELSE ListValue(<<>>)

\* if png_files_in_root and not any(list(d.rglob('*.png')) for d in subdirs)
IsFlat(t, rootPngs, dirs) ==
    rootPngs # <<>> /\ ~ \E i \in DOMAIN dirs : RGlob(t, dirs[i]) # {}

\* ------------------------------------------------------------- json.dump
RECURSIVE Spaces(_)
Spaces(n) == IF n = 0 THEN <<>> ELSE <<32>> \o Spaces(n - 1)
\* A line break and the indentation of a nesting level (indent=2).
NewLine(level) == <<10>> \o Spaces(2 * level)

\* A JSON string: quoted, '"' and '\' escaped (the names of the model hold no
\* control or non-ASCII character).
RECURSIVE JsonEscape(_)
JsonEscape(s) ==
    IF s = <<>> THEN <<>>
    ELSE (IF s[1] = 34 \/ s[1] = 92 THEN <<92, s[1]>> ELSE <<s[1]>>)
         \o JsonEscape(Tail(s))
JsonString(s) == <<34>> \o JsonEscape(s) \o <<34>>

\* "name"
k_name == <<110, 97, 109, 101>>
\* "data"
k_data == <<100, 97, 116, 97>>

DumpEntry(e, level) ==
    <<123>> \o NewLine(level + 1)
    \o JsonString(k_name) \o <<58, 32>> \o JsonString(e.name) \o <<44>>
    \o NewLine(level + 1)
    \o JsonString(k_data) \o <<58, 32>> \o JsonString(e.data)
    \o NewLine(level) \o <<125>>

RECURSIVE DumpEntries(_, _)
DumpEntries(l, level) ==
    IF Len(l) = 1 THEN DumpEntry(l[1], level)
    ELSE DumpEntry(l[1], level) \o <<44>> \o NewLine(level) \o DumpEntries(Tail(l), level)

DumpList(l, level) ==
    IF l = <<>> THEN <<91, 93>>
    ELSE <<91>> \o NewLine(level + 1) \o DumpEntries(l, level + 1)
         \o NewLine(level) \o <<93>>

\* The items of a dict, in insertion order (sort_keys is not set).
RECURSIVE DumpItems(_, _)
DumpItems(d, level) ==
    JsonString(d[1].key) \o <<58, 32>> \o DumpList(d[1].value, level)
    \o (IF Len(d) = 1 THEN <<>>
        ELSE <<44>> \o NewLine(level) \o DumpItems(Tail(d), level))

DumpDict(d, level) ==
    IF d = <<>> THEN <<123, 125>>
    ELSE <<123>> \o NewLine(level + 1) \o DumpItems(d, level + 1)
         \o NewLine(level) \o <<125>>

DumpValue(v, level) ==
    IF v.type = "list" THEN DumpList(v.list, level) ELSE DumpDict(v.dict, level)

\* json.dump({dir_path.name: png_data}, f, indent=2)
JsonDump(name, v) ==
    <<123>> \o NewLine(1) \o JsonString(name) \o <<58, 32>> \o DumpValue(v, 1)
    \o NewLine(0) \o <<125>>

\* len(png_data) if isinstance(png_data, list)
\* else sum(len(v) for v in png_data.values())
RECURSIVE SumLens(_)
SumLens(d) == IF d = <<>> THEN 0 ELSE Len(d[1].value) + SumLens(Tail(d))
FileCount(v) == IF v.type = "list" THEN Len(v.list) ELSE SumLens(v.dict)

\* ------------------------------------------------------------------- state
VARIABLES
    inputKind,          \* what args.directory names: "missing", "file" or "dir"
    fs,                 \* the tree below the input directory
    outFile,            \* the file at args.output
    pc,                 \* where main is
    subdirs,            \* process_directory: subdirs, as enumerated
    png_files_in_root,  \* process_directory: png_files_in_root, as enumerated
    pending,            \* the part of sorted(subdirs) the loop has not visited
    png_files,          \* process_directory: png_files of the current subdir
    phase,              \* which comprehension runs: "flat", "sub" or "root"
    entries,            \* the list the running comprehension has built so far
    result,             \* process_directory: result
    png_data,           \* main: png_data
    stdout,             \* what main has printed
    outOpened,          \* history: open(args.output, 'w') was called
    readLog,            \* history: the files read, in the order of the reads
    failed,             \* history: the files whose read raised
    run,                \* the number of the current run of main
    prevOut,            \* the output file as the run before left it
    mods,               \* changes another process has made to the tree
    fsSeen              \* history: the trees that existed during the scan

vars == <<inputKind, fs, outFile, pc, subdirs, png_files_in_root, pending,
          png_files, phase, entries, result, png_data, stdout, outOpened,
          readLog, failed, run, prevOut, mods, fsSeen>>

env == <<inputKind, fs, mods, fsSeen>>
runs == <<run, prevOut>>

Absent == [exists |-> FALSE, bytes |-> <<>>]
\* An output file left by something else: "old"
Stale == [exists |-> TRUE, bytes |-> <<111, 108, 100>>]

Init ==
    /\ inputKind \in {"missing", "file", "dir"}
    /\ fs \in (IF inputKind = "dir" THEN Trees ELSE {{}})
    /\ outFile \in {Absent, Stale}
    /\ pc = "main"
    /\ subdirs = <<>>
    /\ png_files_in_root = <<>>
    /\ pending = <<>>
    /\ png_files = <<>>
    /\ phase = "none"
    /\ entries = <<>>
    /\ result = <<>>
    /\ png_data = NoValue
    /\ stdout = <<>>
    /\ outOpened = FALSE
    /\ readLog = <<>>
    /\ failed = <<>>
    /\ run = 1
    /\ prevOut = Absent
    /\ mods = 0
    /\ fsSeen = {fs}

\* ---------------------------------------------------------------- actions
\* main: if not dir_path.exists(): print(...); return
main_CheckExists ==
    /\ pc = "main"
    /\ IF inputKind = "missing"
       THEN /\ stdout' = Append(stdout, [msg |-> "does not exist", count |-> 0])
            /\ pc' = "exit"
       ELSE /\ pc' = "check_is_dir"
            /\ UNCHANGED stdout
    /\ UNCHANGED <<env, runs, outFile, subdirs, png_files_in_root, pending,
                   png_files, phase, entries, result, png_data, outOpened,
                   readLog, failed>>

\* main_CheckIsDir without the check: main goes on to process_directory.
main_CheckIsDirSkipped ==
    /\ pc = "check_is_dir"
    /\ pc' = "scan"
    /\ UNCHANGED <<env, runs, outFile, subdirs, png_files_in_root, pending,
                   png_files, phase, entries, result, png_data, stdout,
                   outOpened, readLog, failed>>

\* main: if not dir_path.is_dir(): print(...); return
main_CheckIsDir ==
    /\ pc = "check_is_dir"
    /\ IF inputKind # "dir"
       THEN /\ stdout' = Append(stdout, [msg |-> "is not a directory", count |-> 0])
            /\ pc' = "exit"
       ELSE /\ pc' = "scan"
            /\ UNCHANGED stdout
    /\ UNCHANGED <<env, runs, outFile, subdirs, png_files_in_root, pending,
                   png_files, phase, entries, result, png_data, outOpened,
                   readLog, failed>>

\* process_directory: subdirs = [...]; png_files_in_root = list(...), each in
\* the order the file system enumerates the directory.
Scan ==
    /\ pc = "scan"
    /\ subdirs' \in Enumerations(IterSubdirs(fs))
    /\ png_files_in_root' \in Enumerations(Glob(fs))
    /\ pc' = "classify"
    /\ UNCHANGED <<env, runs, outFile, pending, png_files, phase, entries,
                   result, png_data, stdout, outOpened, readLog, failed>>

\* process_directory: the flat test; in the flat case the comprehension over
\* png_files_in_root starts, otherwise result = {} and the loop over
\* sorted(subdirs) starts.
Classify ==
    /\ pc = "classify"
    /\ IF IsFlat(fs, png_files_in_root, subdirs)
       THEN /\ phase' = "flat"
            /\ entries' = <<>>
            /\ pc' = "encode"
            /\ UNCHANGED <<result, pending>>
       ELSE /\ result' = <<>>
            /\ pending' = SortedSubdirs(subdirs)
            /\ pc' = "loop"
            /\ UNCHANGED <<phase, entries>>
    /\ UNCHANGED <<env, runs, outFile, subdirs, png_files_in_root, png_files,
                   png_data, stdout, outOpened, readLog, failed>>

\* process_directory: for subdir in sorted(subdirs): png_files = list(...);
\* if png_files: the comprehension over png_files starts.
LoopSubdir ==
    /\ pc = "loop"
    /\ pending # <<>>
    /\ png_files' \in Enumerations(RGlob(fs, Head(pending)))
    /\ IF png_files' = <<>>
       THEN /\ pending' = Tail(pending)
            /\ UNCHANGED <<phase, entries, pc>>
       ELSE /\ phase' = "sub"
            /\ entries' = <<>>
            /\ pc' = "encode"
            /\ UNCHANGED pending
    /\ UNCHANGED <<env, runs, outFile, subdirs, png_files_in_root, result,
                   png_data, stdout, outOpened, readLog, failed>>

\* process_directory, after the loop: if png_files_in_root: the comprehension
\* over png_files_in_root starts; otherwise return result if result else [].
AfterLoop ==
    /\ pc = "loop"
    /\ pending = <<>>
    /\ IF png_files_in_root # <<>>
       THEN /\ phase' = "root"
            /\ entries' = <<>>
            /\ pc' = "encode"
            /\ UNCHANGED png_data
       ELSE /\ png_data' = ReturnValue(result)
            /\ pc' = "write"
            /\ UNCHANGED <<phase, entries>>
    /\ UNCHANGED <<env, runs, outFile, subdirs, png_files_in_root, pending,
                   png_files, result, stdout, outOpened, readLog, failed>>

\* The list the running comprehension iterates.
Iterated == IF phase = "sub" THEN png_files ELSE png_files_in_root

\* ReadFile with the error swallowed: a file whose read raises gets an entry
\* of empty content and the comprehension goes on.
ReadFileFallback ==
    /\ pc = "encode"
    /\ Len(entries) < Len(Iterated)
    /\ LET f == Iterated[Len(entries) + 1] IN
       \E readable \in BOOLEAN :
          IF readable /\ File(f) \in fs
          THEN /\ entries' = Append(entries, Entry(f))
               /\ readLog' = Append(readLog, [phase |-> phase, path |-> f])
               /\ UNCHANGED <<pc, failed>>
          ELSE /\ failed' = Append(failed, f)
               /\ entries' = Append(entries, [name |-> BaseName(f),
                                              data |-> encode_png_to_data_uri(<<>>)])
               /\ UNCHANGED <<pc, readLog>>
    /\ UNCHANGED <<env, runs, outFile, subdirs, png_files_in_root, pending,
                   png_files, phase, result, png_data, stdout, outOpened>>

\* ReadFile iterating the sorted list: for f in sorted(png_files)
ReadFileSortedOrder ==
    /\ pc = "encode"
    /\ Len(entries) < Len(Iterated)
    /\ LET f == SortedSubdirs(Iterated)[Len(entries) + 1] IN
       \E readable \in BOOLEAN :
          IF readable /\ File(f) \in fs
          THEN /\ entries' = Append(entries, Entry(f))
               /\ readLog' = Append(readLog, [phase |-> phase, path |-> f])
               /\ UNCHANGED <<pc, failed>>
          ELSE /\ failed' = Append(failed, f)
               /\ pc' = "raised"
               /\ UNCHANGED <<entries, readLog>>
    /\ UNCHANGED <<env, runs, outFile, subdirs, png_files_in_root, pending,
                   png_files, phase, result, png_data, stdout, outOpened>>

\* One iteration of a comprehension: encode_png_to_data_uri(f) opens and reads
\* f. The read raises when f is no regular file (a directory, a file that is
\* gone) and may raise for any file (permission denied, I/O error); nothing
\* catches it.
ReadFile ==
    /\ pc = "encode"
    /\ Len(entries) < Len(Iterated)
    /\ LET f == Iterated[Len(entries) + 1] IN
       \E readable \in BOOLEAN :
          IF readable /\ File(f) \in fs
          THEN /\ entries' = Append(entries, Entry(f))
               /\ readLog' = Append(readLog, [phase |-> phase, path |-> f])
               /\ UNCHANGED <<pc, failed>>
          ELSE /\ failed' = Append(failed, f)
               /\ pc' = "raised"
               /\ UNCHANGED <<entries, readLog>>
    /\ UNCHANGED <<env, runs, outFile, subdirs, png_files_in_root, pending,
                   png_files, phase, result, png_data, stdout, outOpened>>

\* The end of a comprehension: the list is sorted and returned (flat),
\* stored under the subdirectory's name, or stored under '_root'; after
\* '_root', return result if result else [].
StoreBucket ==
    /\ pc = "encode"
    /\ Len(entries) = Len(Iterated)
    /\ IF phase = "flat"
       THEN /\ png_data' = ListValue(SortedByName(entries))
            /\ pc' = "write"
            /\ UNCHANGED <<result, pending>>
       ELSE IF phase = "sub"
       THEN /\ result' = DictSet(result, BaseName(Head(pending)), SortedByName(entries))
            /\ pending' = Tail(pending)
            /\ pc' = "loop"
            /\ UNCHANGED png_data
       ELSE /\ result' = DictSet(result, n__root, SortedByName(entries))
            /\ png_data' = ReturnValue(result')
            /\ pc' = "write"
            /\ UNCHANGED pending
    /\ UNCHANGED <<env, runs, outFile, subdirs, png_files_in_root, png_files,
                   phase, entries, stdout, outOpened, readLog, failed>>

\* main: with open(args.output, 'w') as f: json.dump(output, f, indent=2)
WriteOutput ==
    /\ pc = "write"
    /\ outOpened' = TRUE
    /\ outFile' = [exists |-> TRUE, bytes |-> JsonDump(n_in, png_data)]
    /\ pc' = "summary"
    /\ UNCHANGED <<env, runs, subdirs, png_files_in_root, pending, png_files,
                   phase, entries, result, png_data, stdout, readLog, failed>>

\* main: print(f"Processed {file_count} PNG files to {args.output}")
PrintSummary ==
    /\ pc = "summary"
    /\ stdout' = Append(stdout, [msg |-> "processed", count |-> FileCount(png_data)])
    /\ pc' = "done"
    /\ UNCHANGED <<env, runs, outFile, subdirs, png_files_in_root, pending,
                   png_files, phase, entries, result, png_data, outOpened,
                   readLog, failed>>

Next ==
    \/ main_CheckExists
    \/ main_CheckIsDir
    \/ Scan
    \/ Classify
    \/ LoopSubdir
    \/ AfterLoop
    \/ ReadFile
    \/ StoreBucket
    \/ WriteOutput
    \/ PrintSummary

Spec == Init /\ [][Next]_vars

\* ---------------------------------------------------------- a second run
\* The tool is run again on the same tree with the same output path: a new
\* process, whose only inheritance is the file system.
Rerun ==
    /\ pc = "done"
    /\ run < MaxRuns
    /\ run' = run + 1
    /\ prevOut' = outFile
    /\ pc' = "main"
    /\ subdirs' = <<>>
    /\ png_files_in_root' = <<>>
    /\ pending' = <<>>
    /\ png_files' = <<>>
    /\ phase' = "none"
    /\ entries' = <<>>
    /\ result' = <<>>
    /\ png_data' = NoValue
    /\ stdout' = <<>>
    /\ outOpened' = FALSE
    /\ readLog' = <<>>
    /\ failed' = <<>>
    /\ UNCHANGED <<env, outFile>>

NextRerun == Next \/ Rerun

SpecRerun == Init /\ [][NextRerun]_vars

\* ------------------------------------------------------- another process
\* While process_directory runs, another process adds a PNG file to, or
\* removes one from, a subdirectory.
Modify ==
    /\ pc \in {"scan", "classify", "loop", "encode"}
    /\ mods < MaxMods
    /\ \E n \in Candidates :
          /\ n.kind = "file"
          /\ Len(n.path) > 1
          /\ MatchesPng(BaseName(n.path))
          /\ Dir(Parent(n.path)) \in fs
          /\ fs' = IF n \in fs THEN fs \ {n} ELSE fs \cup {n}
    /\ mods' = mods + 1
    /\ fsSeen' = fsSeen \cup {fs'}
    /\ UNCHANGED <<inputKind, runs, outFile, pc, subdirs, png_files_in_root,
                   pending, png_files, phase, entries, result, png_data,
                   stdout, outOpened, readLog, failed>>

NextConc == Next \/ Modify

SpecConc == Init /\ [][NextConc]_vars

\* ================================================================= claims
\* process_directory has returned its Directory Result.
Returned == png_data.type # "none"

IsPngFile(n) == n.kind = "file" /\ MatchesPng(BaseName(n.path))
\* The PNG files directly in the input directory.
RootPngFiles(t) == { n.path : n \in { m \in t : Len(m.path) = 1 /\ IsPngFile(m) } }
\* The PNG files anywhere beneath directory d.
PngFilesBelow(t, d) ==
    { n.path : n \in { m \in t : /\ Len(m.path) > Len(d)
                                 /\ IsPrefix(d, m.path)
                                 /\ IsPngFile(m) } }
ImmediateSubdirs(t) == { n.path : n \in { m \in t : Len(m.path) = 1 /\ m.kind = "dir" } }
AllPngFiles(t) == { n.path : n \in { m \in t : IsPngFile(m) } }

Range(q) == { q[i] : i \in DOMAIN q }
EntriesFor(ps) == { Entry(p) : p \in ps }
\* A sequence that holds one entry for each file of ps and nothing else.
HoldsExactly(q, ps) == Range(q) = EntriesFor(ps) /\ Len(q) = Cardinality(ps)
AscendingByName(q) ==
    \A i, j \in DOMAIN q : i < j => ~ StrLess(q[j].name, q[i].name)
StrictlyAscending(names) ==
    \A i, j \in DOMAIN names : i < j => StrLess(names[i], names[j])

IsFlatTree(t) ==
    /\ RootPngFiles(t) # {}
    /\ \A d \in ImmediateSubdirs(t) : PngFilesBelow(t, d) = {}

\* C1: in the flat case (PNG files in the root, none beneath any
\* subdirectory) the result is a sequence holding one entry for each root
\* PNG file and nothing else, ascending by name.
C1_FlatCase ==
    (Returned /\ IsFlatTree(fs)) =>
        /\ png_data.type = "list"
        /\ HoldsExactly(png_data.list, RootPngFiles(fs))
        /\ StrictlyAscending([i \in DOMAIN png_data.list |-> png_data.list[i].name])

\* A flat result of two files that were enumerated in descending order, from
\* a tree that also holds a subdirectory and a file that is no PNG.
C1_Witness ==
    /\ Returned
    /\ IsFlatTree(fs)
    /\ Len(png_data.list) = 2
    /\ ImmediateSubdirs(fs) # {}
    /\ File(<<n_n_txt>>) \in fs
    /\ StrLess(BaseName(png_files_in_root[2]), BaseName(png_files_in_root[1]))

\* C2: in the nested case the result is a mapping with a key for every
\* immediate subdirectory that has a PNG file beneath it, holding exactly
\* those files, with no key for a subdirectory without one, and with the key
\* '_root' holding exactly the root PNG files if and only if there are root
\* PNG files; whatever the subdirectories are named.
C2_NestedCase ==
    (Returned /\ \E d \in ImmediateSubdirs(fs) : PngFilesBelow(fs, d) # {}) =>
        /\ png_data.type = "dict"
        /\ \A d \in ImmediateSubdirs(fs) :
              IF PngFilesBelow(fs, d) # {}
              THEN /\ DictHas(png_data.dict, BaseName(d))
                   /\ HoldsExactly(DictGet(png_data.dict, BaseName(d)),
                                   PngFilesBelow(fs, d))
              ELSE BaseName(d) = n__root \/ ~ DictHas(png_data.dict, BaseName(d))
        /\ DictHas(png_data.dict, n__root) <=> RootPngFiles(fs) # {}
        /\ RootPngFiles(fs) # {} =>
              HoldsExactly(DictGet(png_data.dict, n__root), RootPngFiles(fs))

\* C3: a tree without any PNG file gives the empty sequence, and a mapping
\* that is returned has a key.
C3_EmptySentinel ==
    Returned =>
        /\ AllPngFiles(fs) = {} => png_data = ListValue(<<>>)
        /\ png_data.type = "dict" => png_data.dict # <<>>

\* The empty result of a tree that holds subdirectories, one of them nested
\* in another, and a file that is no PNG.
C3_Witness ==
    /\ Returned
    /\ AllPngFiles(fs) = {}
    /\ png_data = ListValue(<<>>)
    /\ Dir(<<n_a, n_x>>) \in fs
    /\ Dir(<<n__root>>) \in fs
    /\ File(<<n_n_txt>>) \in fs

AllBucketsAscending ==
    /\ AscendingByName(png_data.list)
    /\ \A i \in DOMAIN png_data.dict : AscendingByName(png_data.dict[i].value)

\* The keys of the mapping other than '_root', in document order.
RECURSIVE WithoutRootKey(_)
WithoutRootKey(ks) ==
    IF ks = <<>> THEN <<>>
    ELSE (IF ks[1] = n__root THEN <<>> ELSE <<ks[1]>>) \o WithoutRootKey(Tail(ks))

\* C4, as claimed: every bucket is ascending by name and the keys of the
\* mapping, in document order, are ascending.
C4_AllKeysAscending ==
    Returned =>
        /\ AllBucketsAscending
        /\ StrictlyAscending(DictKeys(png_data.dict))

\* C4, amended: every bucket is ascending by name and the keys of the
\* mapping other than '_root', in document order, are ascending; the document
\* holds the keys in that order.
C4_SubdirKeysAscending ==
    /\ Returned =>
          /\ AllBucketsAscending
          /\ StrictlyAscending(WithoutRootKey(DictKeys(png_data.dict)))
    /\ pc \in {"summary", "done"} =>
          outFile.bytes = JsonDump(n_in, png_data)

\* A mapping of two subdirectories that were enumerated in descending order,
\* with a '_root' bucket of two files after them.
C4_Witness ==
    /\ pc = "done"
    /\ DictKeys(png_data.dict) = <<n_a, n_b, n__root>>
    /\ subdirs = <<<<n_b>>, <<n_a>>>>
    /\ Len(DictGet(png_data.dict, n__root)) = 2
    /\ Len(DictGet(png_data.dict, n_a)) = 2

\* C5: when the input path is missing or no directory, every step of main
\* leaves the output file as it was, never opens it, reads no file and
\* raises nothing; main ends after printing one diagnostic.
C5_PreconditionFailure ==
    [][inputKind # "dir" =>
          /\ outFile' = outFile
          /\ ~ outOpened'
          /\ readLog' = <<>> /\ failed' = <<>>
          /\ subdirs' = <<>> /\ png_files_in_root' = <<>>
          /\ pc' \in {"check_is_dir", "exit"}
          /\ pc' = "exit" =>
                /\ Len(stdout') = 1
                /\ stdout'[1].msg = (IF inputKind = "missing" THEN "does not exist"
                                     ELSE "is not a directory")]_vars

\* main has returned for a path that exists but is no directory, with the
\* output file that was there before.
C5_Witness ==
    /\ inputKind = "file"
    /\ pc = "exit"
    /\ outFile = Stale
    /\ Len(stdout) = 1

\* The files the scan has discovered: what the globs list in the tree.
Discovered(t) == Glob(t) \cup UNION { RGlob(t, d) : d \in IterSubdirs(t) }
\* The files the run encodes: in the flat case only those of the root.
ToEncode ==
    IF phase = "flat" THEN Range(png_files_in_root) ELSE Discovered(fs)

\* C6: once a read has raised, main has raised: nothing more is read and the
\* output file is neither opened nor changed; and the output file is opened
\* only after every file to encode has been read without error.
C6_ReadErrorAborts ==
    [][/\ failed' # <<>> =>
            /\ pc' = "raised"
            /\ outFile' = outFile
            /\ ~ outOpened'
            /\ Len(failed') = 1
            /\ failed # <<>> => readLog' = readLog
       /\ outOpened' =>
            /\ failed' = <<>>
            /\ { readLog'[i].path : i \in DOMAIN readLog' } = ToEncode']_vars

\* The read of a regular file has raised after another file was read, with
\* a third file still to read and an output file that was there before.
C6_Witness ==
    /\ pc = "raised"
    /\ failed # <<>>
    /\ File(failed[1]) \in fs
    /\ readLog # <<>>
    /\ Len(entries) + 1 < Len(Iterated)
    /\ outFile = Stale
    /\ ~ outOpened

\* All entries of the result, bucket after bucket.
RECURSIVE FlattenBuckets(_)
FlattenBuckets(d) ==
    IF d = <<>> THEN <<>> ELSE d[1].value \o FlattenBuckets(Tail(d))
AllEntries(v) == v.list \o FlattenBuckets(v.dict)
Occurrences(q, e) == Cardinality({ i \in DOMAIN q : q[i] = e })

\* C7: every PNG file of the tree has exactly one entry in the result (the
\* contents of the files differ, so an entry names its file), and the result
\* holds no other entry.
C7_OneEntryPerFile ==
    Returned =>
        /\ \A p \in AllPngFiles(fs) : Occurrences(AllEntries(png_data), Entry(p)) = 1
        /\ Len(AllEntries(png_data)) = Cardinality(AllPngFiles(fs))

\* C8: a second run on the unchanged tree leaves the output file with the
\* bytes the first run wrote.
C8_Idempotent ==
    (run > 1 /\ pc = "done") => outFile = prevOut

SameBucket(r1, r2) ==
    /\ r1.phase = r2.phase
    /\ r1.phase = "sub" => r1.path[1] = r2.path[1]

\* C9, as claimed: of two files of a bucket, the one read first has the
\* smaller name.
C9_ReadInNameOrder ==
    \A i, j \in DOMAIN readLog :
        (i < j /\ SameBucket(readLog[i], readLog[j])) =>
            ~ StrLess(BaseName(readLog[j].path), BaseName(readLog[i].path))

\* C9, amended: the files of a bucket are read one after another in the
\* order in which the directory enumeration listed them; the entries are
\* sorted only when the whole bucket has been read.
C9_ReadInEnumerationOrder ==
    pc = "encode" =>
        /\ Len(entries) <= Len(Iterated)
        /\ Len(entries) <= Len(readLog)
        /\ \A i \in 1..Len(entries) :
              /\ readLog[Len(readLog) - Len(entries) + i] =
                    [phase |-> phase, path |-> Iterated[i]]
              /\ entries[i] = Entry(Iterated[i])

\* Two files of a bucket have been read, the one with the larger name first.
C9_Witness ==
    /\ pc = "encode"
    /\ Len(entries) = 2
    /\ StrLess(entries[2].name, entries[1].name)
    /\ Len(readLog) >= 2
    /\ readLog[Len(readLog)].path = Iterated[2]

\* The result that the flat and nested rules give for one tree, buckets as
\* sets of entries: what process_directory returns when the tree does not
\* change.
RECURSIVE RuleBuckets(_, _)
RuleBuckets(t, dirs) ==
    IF dirs = <<>> THEN <<>>
    ELSE LET before == RuleBuckets(t, SubSeq(dirs, 1, Len(dirs) - 1))
             d == dirs[Len(dirs)]
         IN IF RGlob(t, d) = {} THEN before
            ELSE DictSet(before, BaseName(d), EntriesFor(RGlob(t, d)))

RuleResult(t) ==
    LET dirs == SortedSubdirs(CHOOSE q \in Enumerations(IterSubdirs(t)) : TRUE)
        nested == RuleBuckets(t, dirs)
        all == IF Glob(t) = {} THEN nested
               ELSE DictSet(nested, n__root, EntriesFor(Glob(t)))
    IN IF Glob(t) # {} /\ \A d \in IterSubdirs(t) : RGlob(t, d) = {}
       THEN [type |-> "list", list |-> EntriesFor(Glob(t)), dict |-> <<>>]
       ELSE IF all = <<>> THEN [type |-> "list", list |-> {}, dict |-> <<>>]
       ELSE [type |-> "dict", list |-> {}, dict |-> all]

\* The shape and the buckets of a returned value, buckets as sets.
ShapeOf(v) ==
    [type |-> v.type,
     list |-> Range(v.list),
     dict |-> [i \in DOMAIN v.dict |->
                 [key |-> v.dict[i].key, value |-> Range(v.dict[i].value)]]]

\* C10: the returned result is the result the rules give for one of the
\* trees that existed during the scan.
C10_SnapshotResult ==
    Returned => \E t \in fsSeen : ShapeOf(png_data) = RuleResult(t)

====
